---- MODULE Spec2Model ----
(***************************************************************************)
(* Model of the custom-tag normalisation of yamlParser07.ts (transform,    *)
(* createPairFrom) and of the "Convert to boolean" code action exercised   *)
(* by code-action-schema.test.ts.                                          *)
(*                                                                         *)
(* Strings of the program are sequences of one-character strings, so that  *)
(* String.split and String.replace are computed, not assumed.              *)
(* An absent (undefined) tag is the empty string <<>>: the code only ever  *)
(* asks `!node.tag`, which is true of both.  An undefined range is <<>>,   *)
(* an undefined srcToken is 0.                                             *)
(***************************************************************************)
EXTENDS Integers, Sequences, FiniteSets, TLC

VARIABLES
    input,       \* the composed tree handed to transform (kept for reference)
    doc,         \* doc.contents, the tree transform mutates
    customTags,  \* the customTags argument: a list of declaration strings
    tagMap,      \* transform's local tagMap
    pc,          \* position of transform
    stack,       \* paths visit() has still to call visit_ on, next first
    detached,    \* scalar node objects replaceNode took out of the tree
    schema,      \* the schema type of the property, in the code-action scenario
    text,        \* the text document of the code-action scenario
    diagnostics, \* what validation reported on it
    result       \* what getCodeAction returned

vars == <<input, doc, customTags, tagMap, pc, stack, detached, schema, text, diagnostics, result>>

-----------------------------------------------------------------------------
(* Bounds *)

\* number of nodes (map keys not counted) of an input tree
MaxNodes == 3

\* number of declarations in a customTags list of the registry specification
MaxDecls == 3

-----------------------------------------------------------------------------
(* Strings *)

AppPrefix == <<"!", "a", "p", "p", ":">>
TagApp    == AppPrefix \o <<"A">>
TagOther  == <<"!", "o", ":", "C">>
NoTag     == <<>>

TypeKey   == <<"$", "t", "y", "p", "e">>
ValueKey  == <<"v", "a", "l", "u", "e">>
AbcStr    == <<"a", "b", "c">>
DefStr    == <<"d", "e", "f">>
ScalarKind == <<"s", "c", "a", "l", "a", "r">>
MapKind    == <<"m", "a", "p">>
Space     == " "

\* s.startsWith(p) at offset i (1-based)
MatchesAt(s, p, i) ==
    /\ i + Len(p) - 1 <= Len(s)
    /\ \A k \in 1..Len(p) : s[i + k - 1] = p[k]

\* s.indexOf(p), 1-based; 0 when p does not occur
IndexOf(s, p) ==
    LET hits == {i \in 1..Len(s) : MatchesAt(s, p, i)}
    IN  IF hits = {} THEN 0 ELSE CHOOSE i \in hits : \A j \in hits : i <= j

\* String.prototype.replace with a string pattern: the first occurrence only
StrReplace(s, p, r) ==
    LET i == IndexOf(s, p)
    IN  IF i = 0 THEN s
        ELSE SubSeq(s, 1, i - 1) \o r \o SubSeq(s, i + Len(p), Len(s))

\* String.prototype.split with a one-character separator
RECURSIVE StrSplit(_, _)
StrSplit(s, sep) ==
    LET i == IndexOf(s, <<sep>>)
    IN  IF i = 0 THEN <<s>>
        ELSE <<SubSeq(s, 1, i - 1)>> \o StrSplit(SubSeq(s, i + 1, Len(s)), sep)

-----------------------------------------------------------------------------
(* Tag registry: transform, lines 84-87 *)

\* .map((t) => t.split(' ')).map((p) => ({tag: p[0], type: p.length > 1 ? p[1] : 'scalar'}))
ParseDeclaration(t) ==
    LET p == StrSplit(t, Space)
    IN  [tag |-> p[1], type |-> IF Len(p) > 1 THEN p[2] ELSE ScalarKind]

\* {} as Record<string, string>
EmptyTagMap == [k \in {} |-> ScalarKind]

\* .reduce((p, c) => ({...p, [c.tag]: c.type}), {})
RECURSIVE BuildTagMap(_)
BuildTagMap(decls) ==
    IF decls = <<>> THEN EmptyTagMap
    ELSE LET p == BuildTagMap(SubSeq(decls, 1, Len(decls) - 1))
             c == ParseDeclaration(decls[Len(decls)])
         IN  [k \in DOMAIN p \cup {c.tag} |-> IF k = c.tag THEN c.type ELSE p[k]]

-----------------------------------------------------------------------------
(* Nodes of the yaml library, as far as transform reads and writes them.   *)
(* A Map's items are Pairs [key, value]; a Seq's items are nodes.          *)

NoRange == <<>>
NoToken == 0

Scalar(tag, value, range, srcToken) ==
    [kind |-> "Scalar", tag |-> tag, value |-> value, items |-> <<>>,
     range |-> range, srcToken |-> srcToken]

YAMLMap(tag, items, range, srcToken) ==
    [kind |-> "Map", tag |-> tag, value |-> <<>>, items |-> items,
     range |-> range, srcToken |-> srcToken]

YAMLSeq(tag, items, range, srcToken) ==
    [kind |-> "Seq", tag |-> tag, value |-> <<>>, items |-> items,
     range |-> range, srcToken |-> srcToken]

Pair(key, value) == [key |-> key, value |-> value]

\* the `value: unknown` argument of createPairFrom: a node or a plain string
NodeValue(n)  == [isNode |-> TRUE, v |-> n]
PlainValue(s) == [isNode |-> FALSE, v |-> s]

\* doc.createNode(<string>): a fresh untagged Scalar, no range, no srcToken
CreateNode(value) == Scalar(NoTag, value, NoRange, NoToken)

\* doc.createNode({}): a fresh untagged empty YAMLMap, no range, no srcToken
CreateMapNode == YAMLMap(NoTag, <<>>, NoRange, NoToken)

\* node.clone(): a copy of the scalar with its own tag, value, range, srcToken
Clone(node) == node

\* seeded fault: the value node is left without range and srcToken
createPairFromNoValueRange(node, key, value) ==
    LET keyNode == [CreateNode(key) EXCEPT !.range = node.range,
                                            !.srcToken = node.srcToken]
    IN  IF ~value.isNode
        THEN Pair(keyNode, CreateNode(value.v))
        ELSE Pair(keyNode, value.v)

\* createPairFrom, lines 119-131
createPairFrom(node, key, value) ==
    LET keyNode == [CreateNode(key) EXCEPT !.range = node.range,
                                            !.srcToken = node.srcToken]
    IN  IF ~value.isNode
        THEN LET valueNode == [CreateNode(value.v) EXCEPT !.range = node.range,
                                                          !.srcToken = node.srcToken]
             IN  Pair(keyNode, valueNode)
        ELSE Pair(keyNode, value.v)

\* findPair of the yaml library, as YAMLMap.add uses it: a pair whose key is a
\* Scalar holding the same value as the new key (a fresh key node is identical
\* to no node already in the map)
FindPair(items, key) ==
    \E i \in 1..Len(items) :
        items[i].key.kind = "Scalar" /\ items[i].key.value = key.value

\* node.add(pair), lines 95, 105, 110: YAMLMap.add without `overwrite` throws
\* "Key ... already set" when the key is in the map, and pushes the pair otherwise
MapAdd(node, pair) ==
    IF FindPair(node.items, pair.key)
    THEN [threw |-> TRUE, node |-> node]
    ELSE [threw |-> FALSE, node |-> [node EXCEPT !.items = Append(@, pair)]]

\* seeded fault: every namespace is cut off: what follows the first ':'
StripTagAll(tag) == SubSeq(tag, IndexOf(tag, <<":">>) + 1, Len(tag))

\* node.tag.replace('!app:', ''), lines 94 and 104

StripTag(tag) == StrReplace(tag, AppPrefix, <<>>)

\* tagMap[node.tag] === 'scalar', line 106
IsScalarTag(map, tag) == tag \in DOMAIN map /\ map[tag] = ScalarKind

\* seeded fault: the pair is built and never added
MapVisitorNoAdd(node) ==
    [threw |-> FALSE, node |-> node]

\* seeded fault: the `if (!node.tag) return` guard is missing
MapVisitorNoTagCheck(node) ==
    MapAdd(node, createPairFrom(node, TypeKey, PlainValue(StripTag(node.tag))))

\* the Map visitor, lines 90-96
MapVisitor(node) ==
    IF node.tag = NoTag
    THEN [threw |-> FALSE, node |-> node]
    ELSE MapAdd(node, createPairFrom(node, TypeKey, PlainValue(StripTag(node.tag))))

\* seeded fault: `copied` is the node itself, not a clone: clearing its tag clears
\* the tag of the visited scalar
ScalarVisitorNoClone(node, map) ==
    IF node.tag = NoTag
    THEN [replace |-> FALSE, node |-> node, orig |-> node]
    ELSE LET newNode  == [CreateMapNode EXCEPT !.range = node.range,
                                               !.srcToken = node.srcToken]
             typePair == createPairFrom(node, TypeKey, PlainValue(StripTag(node.tag)))
             withType == MapAdd(newNode, typePair).node
             copied   == [node EXCEPT !.tag = NoTag]
             p2       == createPairFrom(node, ValueKey, NodeValue(copied))
         IN  [replace |-> TRUE,
              node    |-> IF IsScalarTag(map, node.tag)
                          THEN MapAdd(withType, p2).node
                          ELSE withType,
              orig    |-> IF IsScalarTag(map, node.tag) THEN copied ELSE node]

\* the Scalar visitor, lines 97-113.  replace: whether a node is returned;
\* node: the node returned; orig: the visited scalar object afterwards
ScalarVisitor(node, map) ==
    IF node.tag = NoTag
    THEN [replace |-> FALSE, node |-> node, orig |-> node]
    ELSE LET newNode  == [CreateMapNode EXCEPT !.range = node.range,
                                               !.srcToken = node.srcToken]
             typePair == createPairFrom(node, TypeKey, PlainValue(StripTag(node.tag)))
             withType == MapAdd(newNode, typePair).node
             copied   == [Clone(node) EXCEPT !.tag = NoTag]
             p2       == createPairFrom(node, ValueKey, NodeValue(copied))
         IN  [replace |-> TRUE,
              node    |-> IF IsScalarTag(map, node.tag)
                          THEN MapAdd(withType, p2).node
                          ELSE withType,
              orig    |-> node]

-----------------------------------------------------------------------------
(* visit() of the yaml library, as transform drives it: visit_(key, node)  *)
(* calls the visitor of the node's kind; a returned node replaces the      *)
(* visited one in its parent and is visited in its place; otherwise the    *)
(* items of a collection, and the key and the value of each Pair, are      *)
(* visited in order.  A path is the list of steps from doc.contents.       *)

Step(i, side) == [i |-> i, side |-> side]

Child(node, s) ==
    IF s.side = "item" THEN node.items[s.i]
    ELSE IF s.side = "key" THEN node.items[s.i].key
    ELSE node.items[s.i].value

RECURSIVE NodeAt(_, _)
NodeAt(root, path) ==
    IF path = <<>> THEN root
    ELSE NodeAt(Child(root, Head(path)), Tail(path))

\* replaceNode(key, path, node): the parent's slot now holds `new`
RECURSIVE ReplaceAt(_, _, _)
ReplaceAt(root, path, new) ==
    IF path = <<>> THEN new
    ELSE LET s   == Head(path)
             sub == ReplaceAt(Child(root, s), Tail(path), new)
         IN  IF s.side = "item" THEN [root EXCEPT !.items[s.i] = sub]
             ELSE IF s.side = "key" THEN [root EXCEPT !.items[s.i].key = sub]
             ELSE [root EXCEPT !.items[s.i].value = sub]

\* the visit_ calls the loop over node.items makes, in order
RECURSIVE ChildPathsFrom(_, _, _)
ChildPathsFrom(path, node, i) ==
    IF i > Len(node.items) THEN <<>>
    ELSE (IF node.kind = "Map"
          THEN <<Append(path, Step(i, "key")), Append(path, Step(i, "value"))>>
          ELSE <<Append(path, Step(i, "item"))>>)
         \o ChildPathsFrom(path, node, i + 1)

\* seeded fault: of a Pair only the value is visited
RECURSIVE ChildPathsValuesOnly(_, _)
ChildPathsValuesOnly(path, node) ==
    LET all == ChildPathsFrom(path, node, 1)
        RECURSIVE Keep(_)
        Keep(ps) == IF ps = <<>> THEN <<>>
                    ELSE (IF Head(ps)[Len(Head(ps))].side = "key" THEN <<>> ELSE <<Head(ps)>>)
                         \o Keep(Tail(ps))
    IN  Keep(all)

ChildPaths(path, node) == ChildPathsFrom(path, node, 1)

-----------------------------------------------------------------------------
(* Inputs: the trees the composer can hand over for block-style documents  *)
(* (a block mapping or sequence has at least one entry), every node with   *)
(* its own range and source token.                                         *)

ScalarTags == {NoTag, TagApp, TagOther}
MapTags    == {NoTag, TagApp}
SeqTags    == {NoTag, TagApp}

KeyShapes ==
    {Scalar(NoTag, AbcStr, NoRange, NoToken),
     Scalar(NoTag, TypeKey, NoRange, NoToken),
     Scalar(TagApp, AbcStr, NoRange, NoToken)}

\* trees of exactly n nodes, map keys not counted
RECURSIVE ShapesOfSize(_), NodeLists(_), PairLists(_)
ShapesOfSize(n) ==
    IF n = 0 THEN {}
    ELSE IF n = 1 THEN {Scalar(t, DefStr, NoRange, NoToken) : t \in ScalarTags}
    ELSE {YAMLMap(t, items, NoRange, NoToken) : t \in MapTags, items \in PairLists(n - 1)}
         \cup {YAMLSeq(t, items, NoRange, NoToken) : t \in SeqTags, items \in NodeLists(n - 1)}

NodeLists(n) ==
    IF n = 0 THEN {<<>>}
    ELSE UNION {{<<t>> \o r : t \in ShapesOfSize(k), r \in NodeLists(n - k)} : k \in 1..n}

PairLists(n) ==
    IF n = 0 THEN {<<>>}
    ELSE UNION {{<<Pair(key, t)>> \o r :
                    key \in KeyShapes, t \in ShapesOfSize(k), r \in PairLists(n - k)}
                : k \in 1..n}

\* the composer gives the node numbered c the range <<c>> and the token c;
\* the children of c are numbered 10c + 1, 10c + 2, ...
RECURSIVE Compose(_, _)
Compose(node, c) ==
    [node EXCEPT
        !.range = <<c>>,
        !.srcToken = c,
        !.items = [i \in 1..Len(node.items) |->
                     IF node.kind = "Map"
                     THEN Pair(Compose(node.items[i].key, 10 * c + 2 * i - 1),
                               Compose(node.items[i].value, 10 * c + 2 * i))
                     ELSE Compose(node.items[i], 10 * c + i)]]

InputDocs == {Compose(t, 1) : t \in UNION {ShapesOfSize(n) : n \in 1..MaxNodes}}

\* "<tag> <kind>" declarations
Decl(tag, kind) == tag \o <<Space>> \o kind

\* customTags of the transform runs: nothing declared (the default), or one
\* tag declared bare and the other declared a map
TagLists == {<<>>, <<TagApp, Decl(TagOther, MapKind)>>}

-----------------------------------------------------------------------------
(* transform, lines 83-117 *)

Init ==
    /\ input \in InputDocs
    /\ doc = input
    /\ customTags \in TagLists
    /\ tagMap = EmptyTagMap
    /\ pc = "tagMap"
    /\ stack = <<>>
    /\ detached = <<>>
    /\ schema = "none"
    /\ text = <<>>
    /\ diagnostics = <<>>
    /\ result = <<>>

\* lines 84-87, and the call of visit on doc.contents
MakeTagMap ==
    /\ pc = "tagMap"
    /\ tagMap' = BuildTagMap(customTags)
    /\ pc' = "visit"
    /\ stack' = << <<>> >>
    /\ UNCHANGED <<input, doc, customTags, detached, schema, text, diagnostics, result>>

\* visit_ on a Map: the Map visitor, then the items
VisitMap ==
    /\ pc = "visit"
    /\ stack # <<>>
    /\ LET path == Head(stack)
           node == NodeAt(doc, path)
           r    == MapVisitor(node)
       IN  /\ node.kind = "Map"
           /\ IF r.threw
              THEN /\ pc' = "threw"
                   /\ UNCHANGED <<doc, stack>>
              ELSE /\ doc' = ReplaceAt(doc, path, r.node)
                   /\ stack' = ChildPaths(path, r.node) \o Tail(stack)
                   /\ pc' = pc
    /\ UNCHANGED <<input, customTags, tagMap, detached, schema, text, diagnostics, result>>

\* visit_ on a Seq: no visitor is registered, the items are visited
VisitSeq ==
    /\ pc = "visit"
    /\ stack # <<>>
    /\ LET path == Head(stack)
           node == NodeAt(doc, path)
       IN  /\ node.kind = "Seq"
           /\ stack' = ChildPaths(path, node) \o Tail(stack)
    /\ UNCHANGED <<input, doc, customTags, tagMap, pc, detached, schema, text, diagnostics, result>>

\* visit_ on a Scalar: the Scalar visitor; a returned node replaces the scalar
\* and is visited next, in its place
VisitScalar ==
    /\ pc = "visit"
    /\ stack # <<>>
    /\ LET path == Head(stack)
           node == NodeAt(doc, path)
           r    == ScalarVisitor(node, tagMap)
       IN  /\ node.kind = "Scalar"
           /\ IF r.replace
              THEN /\ doc' = ReplaceAt(doc, path, r.node)
                   /\ detached' = Append(detached, r.orig)
                   /\ stack' = stack
              ELSE /\ stack' = Tail(stack)
                   /\ UNCHANGED <<doc, detached>>
    /\ UNCHANGED <<input, customTags, tagMap, pc, schema, text, diagnostics, result>>

\* line 116
Return ==
    /\ pc = "visit"
    /\ stack = <<>>
    /\ pc' = "done"
    /\ UNCHANGED <<input, doc, customTags, tagMap, stack, detached, schema, text, diagnostics, result>>

Next == MakeTagMap \/ VisitMap \/ VisitSeq \/ VisitScalar \/ Return

Spec == Init /\ [][Next]_vars

-----------------------------------------------------------------------------
(* transform under every customTags list of a few declarations, well formed *)
(* or not, on a document that holds a scalar of each tag                    *)

DeclStrings ==
    {TagApp,
     Decl(TagApp, ScalarKind),
     Decl(TagApp, MapKind),
     TagApp \o <<Space>>,
     TagApp \o <<Space, Space>> \o MapKind,
     Decl(TagOther, ScalarKind)}

RECURSIVE DeclLists(_)
DeclLists(n) ==
    IF n = 0 THEN {<<>>}
    ELSE DeclLists(n - 1)
         \cup {Append(l, d) : l \in {x \in DeclLists(n - 1) : Len(x) = n - 1}, d \in DeclStrings}

RegistryDoc ==
    Compose(YAMLSeq(NoTag, <<Scalar(TagApp, DefStr, NoRange, NoToken),
                             Scalar(TagOther, DefStr, NoRange, NoToken)>>,
                    NoRange, NoToken), 1)

InitTags ==
    /\ input = RegistryDoc
    /\ doc = input
    /\ customTags \in DeclLists(MaxDecls)
    /\ tagMap = EmptyTagMap
    /\ pc = "tagMap"
    /\ stack = <<>>
    /\ detached = <<>>
    /\ schema = "none"
    /\ text = <<>>
    /\ diagnostics = <<>>
    /\ result = <<>>

SpecTags == InitTags /\ [][Next]_vars

-----------------------------------------------------------------------------
(* The "Convert to boolean" quick fix, as code-action-schema.test.ts drives *)
(* it: a one-line document `<key>: <literal>`, validated against a schema   *)
(* that types the key, then YamlCodeActions.getCodeAction on the            *)
(* diagnostics.  Validation and the code action are modelled from their     *)
(* contract; offsets are 0-based characters of line 0.                      *)

DQuote == "\""
SQuote == "'"

TrueStr  == <<"t", "r", "u", "e">>
FalseStr == <<"f", "a", "l", "s", "e">>

FixKeys == {<<"a", "n", "a", "l", "y", "t", "i", "c", "s">>, <<"o", "n">>}

FixWords ==
    {TrueStr, FalseStr, <<"T", "r", "u", "e">>, <<"F", "A", "L", "S", "E">>,
     <<"m", "a", "y", "b", "e">>}

Quoted(q, w) == <<q>> \o w \o <<q>>

FixLiterals ==
    {Quoted(q, w) : q \in {DQuote, SQuote}, w \in FixWords}
    \cup {TrueStr, FalseStr, <<"m", "a", "y", "b", "e">>}

Spaces(n) == [i \in 1..n |-> Space]

Line(key, pad, literal) == key \o <<":">> \o Spaces(pad) \o literal

FixTexts == {Line(k, pad, l) : k \in FixKeys, pad \in {1, 2}, l \in FixLiterals}

\* String.prototype.toLocaleLowerCase, on the letters of the literals
LowerChar(c) ==
    CASE c = "T" -> "t" [] c = "R" -> "r" [] c = "U" -> "u" [] c = "E" -> "e"
      [] c = "F" -> "f" [] c = "A" -> "a" [] c = "L" -> "l" [] c = "S" -> "s"
      [] OTHER -> c

ToLower(str) == [i \in 1..Len(str) |-> LowerChar(str[i])]

\* seeded fault: the span of the text between the quotes
LiteralRangeInsideQuotes(line) ==
    LET colon == IndexOf(line, <<":">>)
        first == CHOOSE i \in (colon + 1)..Len(line) :
                    line[i] # Space /\ \A j \in (colon + 1)..(i - 1) : line[j] = Space
    IN  [start |-> first, end |-> Len(line) - 1]

\* the span of the value of `<key>: <value>`: from its first character, quote
\* included, to the end of the line
LiteralRange(line) ==
    LET colon == IndexOf(line, <<":">>)
        first == CHOOSE i \in (colon + 1)..Len(line) :
                    line[i] # Space /\ \A j \in (colon + 1)..(i - 1) : line[j] = Space
    IN  [start |-> first - 1, end |-> Len(line)]

\* document.getText(range)
GetText(line, range) == SubSeq(line, range.start + 1, range.end)

\* the type the YAML core schema gives a plain or quoted scalar
LiteralType(raw) ==
    IF ToLower(raw) \in {TrueStr, FalseStr} THEN "boolean" ELSE "string"

\* validateTextDocument: one diagnostic when the value is not of the schema's type
Diagnose(line, type) ==
    LET range == LiteralRange(line)
    IN  IF LiteralType(GetText(line, range)) = type THEN <<>>
        ELSE <<[range |-> range, expected |-> type]>>

\* the recognized quoted spellings and what they convert to
BooleanForms ==
    {Quoted(q, w) : q \in {DQuote, SQuote}, w \in {TrueStr, FalseStr}}

Canonical(form) == SubSeq(form, 2, Len(form) - 1)

\* getCodeAction: one `Convert to boolean` action per diagnostic that expected
\* a boolean on a recognized spelling, replacing the diagnostic's range
RECURSIVE ConvertToBooleanActions(_, _)
ConvertToBooleanActions(line, diags) ==
    IF diags = <<>> THEN <<>>
    ELSE LET d     == Head(diags)
             value == ToLower(GetText(line, d.range))
         IN  (IF d.expected = "boolean" /\ value \in BooleanForms
              THEN <<[title |-> "Convert to boolean",
                      edits |-> <<[range |-> d.range, newText |-> Canonical(value)]>>]>>
              ELSE <<>>)
             \o ConvertToBooleanActions(line, Tail(diags))

InitFix ==
    /\ input = RegistryDoc
    /\ doc = input
    /\ customTags = <<>>
    /\ tagMap = EmptyTagMap
    /\ stack = <<>>
    /\ detached = <<>>
    /\ schema \in {"boolean", "string"}
    /\ text \in FixTexts
    /\ diagnostics = <<>>
    /\ result = <<>>
    /\ pc = "validate"

\* validationHandler.validateTextDocument(doc)
Validate ==
    /\ pc = "validate"
    /\ diagnostics' = Diagnose(text, schema)
    /\ pc' = "codeAction"
    /\ UNCHANGED <<input, doc, customTags, tagMap, stack, detached, schema, text, result>>

\* actions.getCodeAction(doc, params)
GetCodeAction ==
    /\ pc = "codeAction"
    /\ result' = ConvertToBooleanActions(text, diagnostics)
    /\ pc' = "answered"
    /\ UNCHANGED <<input, doc, customTags, tagMap, stack, detached, schema, text, diagnostics>>

NextFix == Validate \/ GetCodeAction

SpecFix == InitFix /\ [][NextFix]_vars

-----------------------------------------------------------------------------
(* Vocabulary of the properties *)

Steps(node) ==
    IF node.kind = "Map"
    THEN {Step(i, side) : i \in 1..Len(node.items), side \in {"key", "value"}}
    ELSE IF node.kind = "Seq"
    THEN {Step(i, "item") : i \in 1..Len(node.items)}
    ELSE {}

RECURSIVE PathsOf(_)
PathsOf(node) ==
    {<<>>} \cup UNION {{<<s>> \o q : q \in PathsOf(Child(node, s))} : s \in Steps(node)}

RECURSIVE Untagged(_)
Untagged(node) ==
    /\ node.tag = NoTag
    /\ \A s \in Steps(node) : Untagged(Child(node, s))

RECURSIVE NodeCount(_)
NodeCount(node) ==
    LET kids == Steps(node)
        RECURSIVE Sum(_)
        Sum(S) == IF S = {} THEN 0
                  ELSE LET s == CHOOSE x \in S : TRUE
                       IN  NodeCount(Child(node, s)) + Sum(S \ {s})
    IN  1 + Sum(kids)

\* the tagged nodes of the input of the given kinds, by path
TaggedPaths(kinds) ==
    {p \in PathsOf(input) : NodeAt(input, p).tag # NoTag /\ NodeAt(input, p).kind \in kinds}

\* s without the first occurrence of p, read off character by character
RECURSIVE WithoutFirst(_, _)
WithoutFirst(s, p) ==
    IF Len(s) < Len(p) THEN s
    ELSE IF SubSeq(s, 1, Len(p)) = p THEN SubSeq(s, Len(p) + 1, Len(s))
    ELSE <<Head(s)>> \o WithoutFirst(Tail(s), p)

\* the bare type name of a tag: what follows its last ':' or, without one, its '!'
RECURSIVE LocalName(_)
LocalName(tag) ==
    IF \E i \in 1..Len(tag) : tag[i] \in {":", "!"} THEN LocalName(Tail(tag)) ELSE tag

\* a pair ($type, v): a Scalar key `$type` with a Scalar value v
IsTypePair(pair, v) ==
    /\ pair.key.kind = "Scalar" /\ pair.key.value = TypeKey /\ pair.key.tag = NoTag
    /\ pair.value.kind = "Scalar" /\ pair.value.value = v /\ pair.value.tag = NoTag

HasTypePair(node, v) == \E i \in 1..Len(node.items) : IsTypePair(node.items[i], v)

\* declaration d declares tag t: d is t, or t followed by a space and more
Declares(d, t) ==
    /\ MatchesAt(d, t, 1)
    /\ Len(d) = Len(t) \/ d[Len(t) + 1] = Space

Declared(t) == \E i \in 1..Len(customTags) : Declares(customTags[i], t)

\* the last declaration of t is the bare tag or `t scalar`
DeclaredScalar(t) ==
    \E i \in 1..Len(customTags) :
        /\ Declares(customTags[i], t)
        /\ \A j \in (i + 1)..Len(customTags) : ~Declares(customTags[j], t)
        /\ customTags[i] \in {t, Decl(t, ScalarKind)}

-----------------------------------------------------------------------------
(* C1 *)

\* C1 as stated: after transform, every tagged input node, whatever its kind
\* (Map, Scalar or Sequence), is at the same position in the output a Map
\* holding a ($type, tag without `!app:`) pair.
C1_DiscriminatorOnEveryTaggedNode ==
    pc = "done" =>
        \A p \in TaggedPaths({"Map", "Scalar", "Seq"}) :
            /\ NodeAt(doc, p).kind = "Map"
            /\ HasTypePair(NodeAt(doc, p), WithoutFirst(NodeAt(input, p).tag, AppPrefix))

\* C1 amended: when transform returns, every tagged Map or Scalar of the input
\* is at the same position in the output a Map holding a ($type, tag without
\* `!app:`) pair; a tagged Sequence is still a Sequence with its tag and gets
\* no pair of its own.
C1_DiscriminatorOnMapsAndScalars ==
    pc = "done" =>
        /\ \A p \in TaggedPaths({"Map", "Scalar"}) :
              /\ NodeAt(doc, p).kind = "Map"
              /\ HasTypePair(NodeAt(doc, p), WithoutFirst(NodeAt(input, p).tag, AppPrefix))
        /\ \A p \in TaggedPaths({"Seq"}) :
              /\ NodeAt(doc, p).kind = "Seq"
              /\ NodeAt(doc, p).tag = NodeAt(input, p).tag
              /\ Len(NodeAt(doc, p).items) = Len(NodeAt(input, p).items)

C1_Witness ==
    /\ pc = "done"
    /\ \E p \in TaggedPaths({"Map"}) : p # <<>>
    /\ TaggedPaths({"Scalar"}) # {}

C1_WitnessSeq ==
    /\ pc = "done"
    /\ TaggedPaths({"Seq"}) # {}
    /\ TaggedPaths({"Scalar"}) # {}

-----------------------------------------------------------------------------
(* C2 *)

\* C2 as stated: a tagged Scalar whose tag no declaration of customTags names
\* is wrapped, without error, in a Map holding the $type pair and a `value`
\* pair with the tag-cleared clone of the scalar.
C2_UnknownTagWrappedWithValue ==
    pc = "done" =>
        \A p \in TaggedPaths({"Scalar"}) :
            ~Declared(NodeAt(input, p).tag) =>
                LET out == NodeAt(doc, p)
                IN  /\ out.kind = "Map"
                    /\ Len(out.items) = 2
                    /\ IsTypePair(out.items[1], WithoutFirst(NodeAt(input, p).tag, AppPrefix))
                    /\ out.items[2].key.value = ValueKey
                    /\ out.items[2].value = [NodeAt(input, p) EXCEPT !.tag = NoTag]

-----------------------------------------------------------------------------
(* C3 *)

\* C3 as stated: transform completes, and every tagged Map with N pairs has
\* N+1 pairs afterwards: the input's pairs in their order, then the $type
\* pair; the Map keeps its tag.
C3_MapTaggingAdditive ==
    /\ pc # "threw"
    /\ pc = "done" =>
          \A p \in TaggedPaths({"Map"}) :
              LET in  == NodeAt(input, p)
                  out == NodeAt(doc, p)
                  N   == Len(in.items)
              IN  /\ out.kind = "Map"
                  /\ out.tag = in.tag
                  /\ Len(out.items) = N + 1
                  /\ \A i \in 1..N :
                        /\ out.items[i].key.range = in.items[i].key.range
                        /\ out.items[i].value.range = in.items[i].value.range
                        /\ Untagged(in.items[i].key) => out.items[i].key = in.items[i].key
                        /\ Untagged(in.items[i].value) => out.items[i].value = in.items[i].value
                  /\ IsTypePair(out.items[N + 1], WithoutFirst(in.tag, AppPrefix))

-----------------------------------------------------------------------------
(* C4 *)

C4_WitnessMapKind ==
    /\ pc = "done"
    /\ customTags # <<>>
    /\ \E p \in TaggedPaths({"Scalar"}) :
          NodeAt(input, p).tag = TagOther /\ Len(NodeAt(doc, p).items) = 1

-----------------------------------------------------------------------------
(* C5 *)

RECURSIVE Positioned(_)
Positioned(node) ==
    /\ node.range # NoRange
    /\ node.srcToken # NoToken
    /\ \A s \in Steps(node) : Positioned(Child(node, s))

SameSource(a, b) == a.range = b.range /\ a.srcToken = b.srcToken

\* C5: no node of the tree ever has an undefined range or source token, and
\* when transform returns every synthesized node (the Map put in place of a
\* tagged scalar, the $type key and value, the `value` key and the clone)
\* has the range and the source token of the tagged node it replaces or augments.
C5_PositionPreservation ==
    /\ Positioned(doc)
    /\ pc = "done" =>
          /\ \A p \in TaggedPaths({"Scalar"}) :
                LET in  == NodeAt(input, p)
                    out == NodeAt(doc, p)
                IN  /\ SameSource(out, in)
                    /\ \A i \in 1..Len(out.items) :
                          /\ SameSource(out.items[i].key, in)
                          /\ SameSource(out.items[i].value, in)
          /\ \A p \in TaggedPaths({"Map"}) :
                LET in   == NodeAt(input, p)
                    out  == NodeAt(doc, p)
                    last == out.items[Len(out.items)]
                IN  /\ SameSource(out, in)
                    /\ SameSource(last.key, in)
                    /\ SameSource(last.value, in)

C5_Witness ==
    /\ pc = "done"
    /\ \E p \in TaggedPaths({"Scalar"}) : Len(NodeAt(doc, p).items) = 2
    /\ TaggedPaths({"Map"}) # {}

-----------------------------------------------------------------------------
(* C6 *)

\* C6: at every point of transform, every untagged node of the input whose
\* descendants are untagged is in the tree, where it was, exactly as it was
\* (pairs, items, values, ranges, source tokens); so a tree without tags is
\* returned as it came.
C6_UntaggedUnchanged ==
    /\ \A p \in PathsOf(input) :
          Untagged(NodeAt(input, p)) => NodeAt(doc, p) = NodeAt(input, p)
    /\ Untagged(input) => doc = input

C6_Witness ==
    /\ pc = "done"
    /\ Untagged(input)
    /\ input.kind = "Map"
    /\ \E i \in 1..Len(input.items) : input.items[i].value.kind \in {"Map", "Seq"}

C6_WitnessSubtree ==
    /\ pc = "done"
    /\ input.tag # NoTag
    /\ \E p \in PathsOf(input) :
          Untagged(NodeAt(input, p)) /\ NodeAt(input, p).kind \in {"Map", "Seq"}

-----------------------------------------------------------------------------
(* C7 *)

\* the value node of the $type pair synthesized for the tagged input node at p
TypeValueAt(p) ==
    LET out == NodeAt(doc, p)
    IN  IF NodeAt(input, p).kind = "Map"
        THEN out.items[Len(out.items)].value
        ELSE out.items[1].value

\* C7 as stated: the $type value of a tagged Map or Scalar is the tag with any
\* namespace prefix removed, the bare type name.
C7_AnyNamespaceStripped ==
    pc = "done" =>
        \A p \in TaggedPaths({"Map", "Scalar"}) :
            /\ TypeValueAt(p).kind = "Scalar"
            /\ TypeValueAt(p).value = LocalName(NodeAt(input, p).tag)

\* C7 amended: the $type value of a tagged Map or Scalar is an untagged string
\* Scalar holding the tag without its first occurrence of the literal `!app:`;
\* a tag that does not contain `!app:` is the value as it is, `!` and other
\* namespace included.
C7_AppPrefixStripped ==
    pc = "done" =>
        \A p \in TaggedPaths({"Map", "Scalar"}) :
            /\ TypeValueAt(p).kind = "Scalar"
            /\ TypeValueAt(p).tag = NoTag
            /\ TypeValueAt(p).value = WithoutFirst(NodeAt(input, p).tag, AppPrefix)
            /\ NodeAt(input, p).tag = TagApp => TypeValueAt(p).value = <<"A">>
            /\ NodeAt(input, p).tag = TagOther => TypeValueAt(p).value = TagOther

C7_Witness ==
    /\ pc = "done"
    /\ \E p \in TaggedPaths({"Scalar"}) : NodeAt(input, p).tag = TagOther
    /\ \E p \in TaggedPaths({"Map"}) : NodeAt(input, p).tag = TagApp

-----------------------------------------------------------------------------
(* C10 *)

\* the nodes transform synthesizes for the input: a tagged Map gains a key and
\* a value; a tagged Scalar is replaced by a Map with a key and a value, and
\* with a second key and the clone when it is classified scalar
Synthesized ==
    LET RECURSIVE Sum(_)
        Sum(S) == IF S = {} THEN 0
                  ELSE LET p == CHOOSE x \in S : TRUE
                       IN  (IF NodeAt(input, p).kind = "Map" THEN 2
                            ELSE IF DeclaredScalar(NodeAt(input, p).tag) THEN 4 ELSE 2)
                           + Sum(S \ {p})
    IN  Sum(TaggedPaths({"Map", "Scalar"}))

RewrittenOnce ==
    /\ NodeCount(doc) = NodeCount(input) + Synthesized
    /\ \A p \in TaggedPaths({"Map"}) :
          LET in  == NodeAt(input, p)
              out == NodeAt(doc, p)
          IN  /\ Len(out.items) = Len(in.items) + 1
              /\ Cardinality({i \in 1..Len(out.items) :
                                 out.items[i].key.kind = "Scalar"
                                 /\ out.items[i].key.value = TypeKey}) = 1
    /\ \A p \in TaggedPaths({"Scalar"}) :
          LET out == NodeAt(doc, p)
          IN  /\ out.kind = "Map"
              /\ out.tag = NoTag
              /\ Cardinality({i \in 1..Len(out.items) :
                                 out.items[i].key.kind = "Scalar"
                                 /\ out.items[i].key.value = TypeKey}) = 1
              /\ \A i \in 1..Len(out.items) :
                    /\ out.items[i].key.kind = "Scalar"
                    /\ out.items[i].value.kind = "Scalar"
                    /\ out.items[i].value.tag = NoTag

\* the visit_ calls a subtree still costs: one per node, the two nodes of the
\* $type pair a tagged Map is about to gain, and for a tagged Scalar the Map
\* that replaces it with at most two pairs
RECURSIVE Visits(_), VisitsFrom(_, _)
Visits(node) ==
    IF node.kind = "Scalar"
    THEN (IF node.tag = NoTag THEN 1 ELSE 6)
    ELSE 1 + VisitsFrom(node, 1)
           + (IF node.kind = "Map" /\ node.tag # NoTag THEN 2 ELSE 0)

\* the visits the items of a collection cost, from the i-th on
VisitsFrom(node, i) ==
    IF i > Len(node.items) THEN 0
    ELSE (IF node.kind = "Map"
          THEN Visits(node.items[i].key) + Visits(node.items[i].value)
          ELSE Visits(node.items[i]))
         + VisitsFrom(node, i + 1)

\* the steps transform has left, at most
Remaining ==
    LET RECURSIVE Sum(_)
        Sum(ps) == IF ps = <<>> THEN 0
                   ELSE Visits(NodeAt(doc, Head(ps))) + Sum(Tail(ps))
    IN  IF pc = "tagMap" THEN Visits(doc) + 2
        ELSE IF pc = "visit" THEN Sum(stack) + 1
        ELSE 0

\* C10: the walk of transform ends: every step takes at least one off the
\* visits that remain, and a step is possible until transform has returned or
\* thrown.  When it has returned, every tagged Map of the input, at any depth,
\* has gained exactly one $type pair and every tagged Scalar has been
\* replaced by exactly one Map that is neither wrapped again nor given a
\* further $type pair.
C10_WalkEndsAndRewritesOnce ==
    /\ [][Remaining' < Remaining]_vars
    /\ [](pc \in {"done", "threw"} \/ ENABLED Next)
    /\ [](pc = "done" => RewrittenOnce)

C10_Witness ==
    /\ pc = "done"
    /\ \E p, q \in TaggedPaths({"Map"}) :
          /\ Len(q) > Len(p)
          /\ SubSeq(q, 1, Len(p)) = p
    /\ \E p \in TaggedPaths({"Scalar"}) : p[Len(p)].side = "key"

C10_WitnessSeq ==
    /\ pc = "done"
    /\ \E p \in TaggedPaths({"Scalar"}) : p # <<>> /\ p[1].side = "item"

-----------------------------------------------------------------------------
(* C9 *)

\* the tag a declaration is about, and the kind C9 says it gets
ClaimedTag(d) == CHOOSE t \in {TagApp, TagOther} : Declares(d, t)

ClaimedKind(d) ==
    IF d = Decl(ClaimedTag(d), MapKind) THEN MapKind ELSE ScalarKind

\* C9 as stated: the tag map is built for every list of declarations; the
\* last declaration of a tag decides: `<tag> <kind>` maps the tag to the kind,
\* a bare tag and a malformed declaration (more than one space before the
\* kind, a trailing space) map the tag to `scalar`.
C9_MalformedDefaultsToScalar ==
    pc # "tagMap" =>
        \A i \in 1..Len(customTags) :
            LET d == customTags[i]
                t == ClaimedTag(d)
            IN  (\A j \in (i + 1)..Len(customTags) : ~Declares(customTags[j], t))
                    => /\ t \in DOMAIN tagMap
                       /\ tagMap[t] = ClaimedKind(d)

-----------------------------------------------------------------------------
(* C8 *)

\* C8: for a literal that failed the boolean check and is a quoted spelling of
\* true or false, in either quote style and any letter case, getCodeAction
\* answers exactly one action, `Convert to boolean`, with a single edit that
\* replaces the literal from its opening to its closing quote (not the key,
\* the colon or the blanks) by the unquoted lower-case word; the two
\* documents of the tests get the edits the tests expect.
C8_ConvertToBoolean ==
    pc = "answered" /\ schema = "boolean" =>
        /\ \A k \in FixKeys, pad \in {1, 2}, q \in {DQuote, SQuote}, w \in FixWords :
              (text = Line(k, pad, Quoted(q, w)) /\ ToLower(w) \in {TrueStr, FalseStr}) =>
                  /\ Len(result) = 1
                  /\ result[1].title = "Convert to boolean"
                  /\ Len(result[1].edits) = 1
                  /\ result[1].edits[1].range.start = Len(k) + 1 + pad
                  /\ result[1].edits[1].range.end = Len(k) + 1 + pad + Len(w) + 2
                  /\ result[1].edits[1].newText = ToLower(w)
        /\ text = Line(<<"a", "n", "a", "l", "y", "t", "i", "c", "s">>, 1, Quoted(DQuote, FalseStr)) =>
              result[1].edits = <<[range |-> [start |-> 11, end |-> 18], newText |-> FalseStr]>>
        /\ text = Line(<<"a", "n", "a", "l", "y", "t", "i", "c", "s">>, 1, Quoted(SQuote, TrueStr)) =>
              result[1].edits = <<[range |-> [start |-> 11, end |-> 17], newText |-> TrueStr]>>

C8_Witness ==
    /\ pc = "answered"
    /\ schema = "boolean"
    /\ text = Line(<<"a", "n", "a", "l", "y", "t", "i", "c", "s">>, 1, Quoted(DQuote, FalseStr))
    /\ Len(result) = 1

====
